---- MODULE Spec2Model ----
(***************************************************************************)
(* State-machine model of the EIS SDK core: the consent lifecycle state    *)
(* machine (src/consent/stateMachine.ts) and the append-only audit logger  *)
(* (src/audit/logger.ts), with the JavaScript object heap made explicit    *)
(* where aliasing decides a property.                                      *)
(***************************************************************************)
EXTENDS Integers, Sequences, FiniteSets, TLC

(***************************************************************************)
(* Bounds of the model.                                                    *)
(***************************************************************************)
MaxMachines == 2
MaxEvents == 2
MaxSnaps == 2
MaxClock == 1
MaxMutations == 2
MaxStamp == 2
MaxTraceLen == 4
MaxExcess == 10
MaxMagnitude == 4
MaxIssued == 2
MaxTokenLen == 6

(***************************************************************************)
(* enum ConsentState                                                       *)
(***************************************************************************)
PENDING == "pending"
GRANTED == "granted"
REVOKED == "revoked"
EXPIRED == "expired"

ConsentState == {PENDING, GRANTED, REVOKED, EXPIRED}

\* Array.prototype.includes
includes(arr, x) == \E i \in 1..Len(arr) : arr[i] = x

VALID_TRANSITIONS ==
    [s \in ConsentState |->
        CASE s = PENDING -> <<GRANTED, REVOKED>>
          [] s = GRANTED -> <<REVOKED, EXPIRED>>
          [] s = REVOKED -> <<>>
          [] s = EXPIRED -> <<>>]

\* A table in which a revoked consent can be granted again.
isValidTransitionRegrant(from, to) ==
    includes(VALID_TRANSITIONS[from], to) \/ (from = REVOKED /\ to = GRANTED)

\* A table in which an expired consent can be renewed.
isValidTransitionRenew(from, to) ==
    includes(VALID_TRANSITIONS[from], to) \/ (from = EXPIRED /\ to = GRANTED)

\* A table in which a pending consent can expire.
isValidTransitionLapse(from, to) ==
    includes(VALID_TRANSITIONS[from], to) \/ (from = PENDING /\ to = EXPIRED)

\* A table lookup that also accepts staying in the same state.
isValidTransitionReflexive(from, to) ==
    includes(VALID_TRANSITIONS[from], to) \/ from = to

isValidTransition(from, to) == includes(VALID_TRANSITIONS[from], to)

\* The constructor's argument when the caller passes none.
NoArg == "undefined"

\* A constructor whose default state is granted.
constructorGranted(initialState) ==
    IF initialState = NoArg THEN GRANTED ELSE initialState

\* constructor(initialState = ConsentState.PENDING): the value of this.state
constructor(initialState) ==
    IF initialState = NoArg THEN PENDING ELSE initialState

\* A transition whose assignment escaped the if.
transitionUnguarded(state, to) ==
    [state  |-> to,
     ret    |-> isValidTransition(state, to),
     raised |-> FALSE]

\* A transition that changes the state but lost its `return true`.
transitionNoReturn(state, to) ==
    [state  |-> IF isValidTransition(state, to) THEN to ELSE state,
     ret    |-> FALSE,
     raised |-> FALSE]

\* transition(to) on a machine whose this.state is `state`: the new this.state,
\* the returned boolean, and whether the call threw (the table lookup yields
\* undefined, and undefined.includes throws, only for a key outside the enum).
transition(state, to) ==
    IF state \notin DOMAIN VALID_TRANSITIONS
    THEN [state |-> state, ret |-> FALSE, raised |-> TRUE]
    ELSE IF isValidTransition(state, to)
         THEN [state |-> to, ret |-> TRUE, raised |-> FALSE]
         ELSE [state |-> state, ret |-> FALSE, raised |-> FALSE]

(***************************************************************************)
(* AuditLogger. The heap is explicit: eventObjs holds the AuditEvent       *)
(* objects, dataObjs the data objects they point to, arrays the array      *)
(* objects; a reference is an index into its heap.                         *)
(***************************************************************************)
\* What a call without a return statement evaluates to.
Undefined == [typeof |-> "undefined"]

\* The event objects of the tests: eventType, userId and the content of data.
LogInputs ==
    {[eventType |-> "event-1", userId |-> "user-1", data |-> "key:value"],
     [eventType |-> "event-2", userId |-> "user-2", data |-> "empty"]}

EventTypes == {i.eventType : i \in LogInputs}
UserIds == {i.userId : i \in LogInputs}
Payloads == {i.data : i \in LogInputs}

\* Array.prototype.push
push(arr, x) == Append(arr, x)

\* { timestamp: Date.now(), ...event }: a timestamp of the argument survives.
spreadArgumentLast(event, t) ==
    [k \in DOMAIN event \cup {"timestamp"} |->
        IF k \in DOMAIN event THEN event[k] ELSE t]

\* { ...event, timestamp: Date.now() }: the own properties of event are copied
\* (a reference stays a reference), then timestamp is set.
spread(event, t) ==
    [k \in DOMAIN event \cup {"timestamp"} |->
        IF k = "timestamp" THEN t ELSE event[k]]

\* A log that puts the new event in front of the others.
logUnshift(objs, arrs, ev, event, t) ==
    [eventObjs |-> Append(objs, spread(event, t)),
     arrays    |-> [arrs EXCEPT ![ev] = <<Len(objs) + 1>> \o @],
     ret       |-> Undefined]

\* A log that keeps only the latest event.
logOverwrite(objs, arrs, ev, event, t) ==
    [eventObjs |-> Append(objs, spread(event, t)),
     arrays    |-> [arrs EXCEPT ![ev] = <<Len(objs) + 1>>],
     ret       |-> Undefined]

\* A log that lets the argument's own timestamp win.
logArgumentTimestamp(objs, arrs, ev, event, t) ==
    [eventObjs |-> Append(objs, spreadArgumentLast(event, t)),
     arrays    |-> [arrs EXCEPT ![ev] = push(@, Len(objs) + 1)],
     ret       |-> Undefined]

\* A log that stores the event twice.
logTwice(objs, arrs, ev, event, t) ==
    [eventObjs |-> Append(Append(objs, spread(event, t)), spread(event, t)),
     arrays    |-> [arrs EXCEPT ![ev] = push(push(@, Len(objs) + 1), Len(objs) + 2)],
     ret       |-> Undefined]

\* log(event) on the logger whose this.events is the array ev, at clock
\* reading t: a new event object is allocated and pushed; nothing is returned.
log(objs, arrs, ev, event, t) ==
    [eventObjs |-> Append(objs, spread(event, t)),
     arrays    |-> [arrs EXCEPT ![ev] = push(@, Len(objs) + 1)],
     ret       |-> Undefined]

\* A getEvents that hands out this.events itself.
getEventsAlias(arrs, ev) ==
    [arrays |-> arrs, ref |-> ev]

\* getEvents(): [...this.events], a new array holding the same references.
getEvents(arrs, ev) ==
    [arrays |-> Append(arrs, arrs[ev]), ref |-> Len(arrs) + 1]

(***************************************************************************)
(* Audit trace validator (src/audit/traceValidator.ts).                    *)
(***************************************************************************)
\* A validator that asks for strictly increasing timestamps.
validateTraceStrict(events) ==
    \A i \in 2..Len(events) : events[i].timestamp > events[i - 1].timestamp

\* for (let i = 1; i < events.length; i++): i is the 0-based index of the
\* code, so events[i] of the code is events[i + 1] here.
RECURSIVE validateTraceLoop(_, _)
validateTraceLoop(events, i) ==
    IF ~(i < Len(events)) THEN TRUE
    ELSE IF events[i + 1].timestamp < events[i].timestamp THEN FALSE
    ELSE validateTraceLoop(events, i + 1)

validateTrace(events) ==
    IF Len(events) = 0 THEN TRUE ELSE validateTraceLoop(events, 1)

(***************************************************************************)
(* Stability utilities (src/lib/stability.ts), coc/erg variant.            *)
(***************************************************************************)
MathMax(a, b) == IF a >= b THEN a ELSE b
MathMin(a, b) == IF a <= b THEN a ELSE b

\* clamp(value, min, max)
clamp(value, min, max) == MathMax(min, MathMin(max, value))

\* The variant in which both axes fall with saturation.
calculateIntegrityBothFall(saturation) ==
    LET clampedSaturation == clamp(saturation, 0, 100)
    IN  [coc |-> clamp(100 - clampedSaturation, 0, 100),
         erg |-> clamp(100 - clampedSaturation, 0, 100)]

calculateIntegrity(saturation) ==
    LET clampedSaturation == clamp(saturation, 0, 100)
    IN  [coc |-> clamp(100 - clampedSaturation, 0, 100),
         erg |-> clamp(clampedSaturation, 0, 100)]

\* A classification that reads the coc axis alone.
getSystemStateCocOnly(integrity) ==
    LET minIntegrity == integrity.coc
    IN  IF minIntegrity < 20 THEN "fractured"
        ELSE IF minIntegrity < 40 THEN "critical"
        ELSE IF minIntegrity < 80 THEN "narrowed"
        ELSE "stable"

\* A classification by the stronger of the two axes.
getSystemStateOfMaximum(integrity) ==
    LET minIntegrity == MathMax(integrity.coc, integrity.erg)
    IN  IF minIntegrity < 20 THEN "fractured"
        ELSE IF minIntegrity < 40 THEN "critical"
        ELSE IF minIntegrity < 80 THEN "narrowed"
        ELSE "stable"

getSystemState(integrity) ==
    LET minIntegrity == MathMin(integrity.coc, integrity.erg)
    IN  IF minIntegrity < 20 THEN "fractured"
        ELSE IF minIntegrity < 40 THEN "critical"
        ELSE IF minIntegrity < 80 THEN "narrowed"
        ELSE "stable"

\* The threshold argument of isCoupled when the caller passes none.
NoThreshold == [given |-> FALSE]

\* A coupling test with strict comparisons.
isCoupledStrict(integrity, threshold) ==
    LET t == IF threshold.given THEN threshold.value ELSE 20
    IN  integrity.coc > t /\ integrity.erg > t

\* isCoupled(integrity, threshold = 20)
isCoupled(integrity, threshold) ==
    LET t == IF threshold.given THEN threshold.value ELSE 20
    IN  integrity.coc >= t /\ integrity.erg >= t

(***************************************************************************)
(* Stability module, min/max variant.                                      *)
(***************************************************************************)
\* clamp(value): to [0, 100]
clampMinMax(value) == MathMax(0, MathMin(100, value))

calculateIntegrityMinMax(saturation) ==
    LET clampedSaturation == clampMinMax(saturation)
        minIntegrity      == clampMinMax(100 - clampedSaturation)
    IN  [min |-> minIntegrity, max |-> 100]

\* A classification whose bands include their upper bound.
getSystemStateMinMaxInclusive(integrity) ==
    LET minIntegrity == integrity.min
    IN  IF minIntegrity <= 20 THEN "fractured"
        ELSE IF minIntegrity <= 40 THEN "critical"
        ELSE IF minIntegrity <= 80 THEN "narrowed"
        ELSE "stable"

getSystemStateMinMax(integrity) ==
    LET minIntegrity == integrity.min
    IN  IF minIntegrity < 20 THEN "fractured"
        ELSE IF minIntegrity < 40 THEN "critical"
        ELSE IF minIntegrity < 80 THEN "narrowed"
        ELSE "stable"

(***************************************************************************)
(* Tolerance window and trust delta (src/unnamed/part_002).                *)
(***************************************************************************)
\* A window that stores the magnitude of the variance.
createToleranceWindowMagnitude(baseline, variance, t) ==
    [baseline |-> baseline,
     variance |-> IF variance < 0 THEN 0 - variance ELSE variance,
     timestamp |-> t]

\* createToleranceWindow(baseline, variance) when Date.now() reads t
createToleranceWindow(baseline, variance, t) ==
    [baseline |-> baseline, variance |-> variance, timestamp |-> t]

\* A membership test that leaves the two bounds out.
isWithinToleranceExclusive(value, window) ==
    LET lowerBound == window.baseline - window.variance
        upperBound == window.baseline + window.variance
    IN  value > lowerBound /\ value < upperBound

isWithinTolerance(value, window) ==
    LET lowerBound == window.baseline - window.variance
        upperBound == window.baseline + window.variance
    IN  value >= lowerBound /\ value <= upperBound

\* A delta taken the other way round.
calculateTrustDeltaReversed(baseline, current) ==
    IF baseline = 0 /\ current = 0
    THEN [baseline |-> baseline, current |-> current, delta |-> 0]
    ELSE [baseline |-> baseline, current |-> current, delta |-> baseline - current]

calculateTrustDelta(baseline, current) ==
    IF baseline = 0 /\ current = 0
    THEN [baseline |-> baseline, current |-> current, delta |-> 0]
    ELSE LET delta == current - baseline
         IN  [baseline |-> baseline, current |-> current, delta |-> delta]

(***************************************************************************)
(* Consent transaction identifiers (src/consent/ctid.ts). A string is a    *)
(* sequence of one-character strings.                                      *)
(***************************************************************************)
DigitChars == <<"0", "1", "2", "3", "4", "5", "6", "7", "8", "9">>

\* Number.prototype.toString() of a non-negative integer, as in a template
RECURSIVE ToDecimal(_)
ToDecimal(n) ==
    IF n < 10 THEN <<DigitChars[n + 1]>>
    ELSE ToDecimal(n \div 10) \o <<DigitChars[(n % 10) + 1]>>

\* String.prototype.slice(start, end) for 0 <= start <= end
slice(str, start, end) ==
    SubSeq(str, start + 1, IF end < Len(str) THEN end ELSE Len(str))

\* What Math.random().toString(36) can be: "0" for 0, else "0." and digits.
\* The last two differ only after the ninth digit.
RandomStrings ==
    {<<"0">>,
     <<"0", ".", "a">>,
     <<"0", ".", "a", "b">>,
     <<"0", ".", "4", "f", "z", "y", "o", "8", "2", "m", "v", "x">>,
     <<"0", ".", "4", "f", "z", "y", "o", "8", "2", "m", "v", "y">>}

\* An identifier without the prefix.
generateCTIDBare(t, rnd) ==
    ToDecimal(t) \o <<"-">> \o slice(rnd, 2, 11)

\* `ctid-${Date.now()}-${Math.random().toString(36).slice(2, 11)}` when
\* Date.now() reads t and Math.random().toString(36) is rnd
generateCTID(t, rnd) ==
    <<"c", "t", "i", "d", "-">> \o ToDecimal(t) \o <<"-">> \o slice(rnd, 2, 11)


\* JavaScript values by their typeof; a string carries its characters.
Str(chars) == [typeof |-> "string", chars |-> chars]
Num(n) == [typeof |-> "number", value |-> n]
Null == [typeof |-> "object"]

\* How a call ends: with a value, or with an exception.
Return(v) == [raised |-> FALSE, value |-> v]
Throw == [raised |-> TRUE]

\* v.startsWith(searchString): a property read on undefined or null throws,
\* and so does a call of a method the value does not have.
startsWith(v, searchString) ==
    IF v.typeof # "string" THEN Throw
    ELSE Return(/\ Len(v.chars) >= Len(searchString)
                /\ SubSeq(v.chars, 1, Len(searchString)) = searchString)

\* A validator without the typeof test.
validateCTIDUnchecked(ctid) ==
    startsWith(ctid, <<"c", "t", "i", "d", "-">>)

\* typeof ctid === 'string' && ctid.startsWith('ctid-')
validateCTID(ctid) ==
    IF ctid.typeof = "string"
    THEN startsWith(ctid, <<"c", "t", "i", "d", "-">>)
    ELSE Return(FALSE)


(***************************************************************************)
(* EISClient (src/client.ts). Its auditLogger is the logger of the model.  *)
(* An async method without an await runs its whole body when it is called  *)
(* and returns a promise of its return value.                              *)
(***************************************************************************)
\* A grantConsent that returns another identifier than the one it logged.
grantConsentOtherId(objs, datas, arrs, ev, params, tGen, rnd, tLog) ==
    LET ctid == generateCTID(tGen, rnd)
        r    == log(objs, arrs, ev,
                    [eventType |-> "consent-granted", userId |-> params.userId,
                     data |-> Len(datas) + 1], tLog)
    IN  [eventObjs |-> r.eventObjs,
         dataObjs  |-> Append(datas, [ctid |-> ctid, scope |-> params.scope]),
         arrays    |-> r.arrays,
         ret       |-> generateCTID(tGen + 1, rnd)]

\* grantConsent(params): Date.now() reads tGen inside generateCTID and tLog
\* inside log; Math.random().toString(36) is rnd.
grantConsent(objs, datas, arrs, ev, params, tGen, rnd, tLog) ==
    LET ctid == generateCTID(tGen, rnd)
        r    == log(objs, arrs, ev,
                    [eventType |-> "consent-granted", userId |-> params.userId,
                     data |-> Len(datas) + 1], tLog)
    IN  [eventObjs |-> r.eventObjs,
         dataObjs  |-> Append(datas, [ctid |-> ctid, scope |-> params.scope]),
         arrays    |-> r.arrays,
         ret       |-> ctid]

\* logAudit(event)
logAudit(objs, datas, arrs, ev, event, t) ==
    LET r == log(objs, arrs, ev,
                 [eventType |-> event.eventType, userId |-> event.userId,
                  data |-> Len(datas) + 1], t)
    IN  [eventObjs |-> r.eventObjs,
         dataObjs  |-> Append(datas, [consentId |-> event.consentId]),
         arrays    |-> r.arrays,
         ret       |-> Undefined]

\* EISClient.calculateTrustDelta(params): data is a copy of the metrics.
clientCalculateTrustDelta(objs, datas, arrs, ev, params, t) ==
    LET metrics == calculateTrustDelta(params.baseline, params.current)
        r == log(objs, arrs, ev,
                 [eventType |-> "trust-delta-calculated", userId |-> params.userId,
                  data |-> Len(datas) + 1], t)
    IN  [eventObjs |-> r.eventObjs,
         dataObjs  |-> Append(datas, [baseline |-> metrics.baseline,
                                      current |-> metrics.current,
                                      delta |-> metrics.delta]),
         arrays    |-> r.arrays,
         ret       |-> metrics]


(***************************************************************************)
(* CognitiveStabilitySystem and its SaturationInputPanel.                  *)
(***************************************************************************)
DigitValue(ch) == CHOOSE d \in 0..9 : DigitChars[d + 1] = ch

\* The number the decimal digits str[i..] continue, acc being the number read
\* so far.
RECURSIVE ParseDigits(_, _, _)
ParseDigits(str, i, acc) ==
    IF i > Len(str) THEN acc
    ELSE ParseDigits(str, i + 1, acc * 10 + DigitValue(str[i]))

\* parseInt(str, 10) of the value of a range input, which the browser keeps a
\* valid number: an optional minus sign and decimal digits.
parseInt(str, radix) ==
    IF str[1] = "-" THEN 0 - ParseDigits(str, 2, 0) ELSE ParseDigits(str, 1, 0)

\* An initial state taken from the property as it is.
initialSaturationStateUnclamped(initialSaturation) == initialSaturation

\* useState(() => clamp(initialSaturation, 0, 100))
initialSaturationState(initialSaturation) == clamp(initialSaturation, 0, 100)

\* handleSaturationChange(value): the saturation that setSaturation stores
handleSaturationChange(value) == clamp(value, 0, 100)

\* handleSliderChange(event), event.target.value being str
handleSliderChange(str) == handleSaturationChange(parseInt(str, 10))

\* handleIncrement() and handleDecrement() with the saturation property
handleIncrement(saturation) == handleSaturationChange(clamp(saturation + 5, 0, 100))
handleDecrement(saturation) == handleSaturationChange(clamp(saturation - 5, 0, 100))

VARIABLES
    machines,   \* the ConsentStateMachine instances created so far, each with the
                \* states it has been in and the number of its true returns
    lastCall,   \* the latest transition(to) call and what it returned
    query,      \* the latest isValidTransition(from, to) call and its result
    prevQuery,  \* the isValidTransition call before that one
    now,        \* what Date.now() returns
    logger,     \* the AuditLogger: events is the reference of its array
    eventObjs,  \* heap of AuditEvent objects
    dataObjs,   \* heap of data objects
    arrays,     \* heap of arrays of event references
    held,       \* the references getEvents returned, in call order
    returned,   \* what each getEvents returned, as values, when it returned
    calls,      \* the log calls so far: argument, clock, result, stored event
    mutations,  \* number of writes the caller made through its references
    app,        \* a pure function, its arguments and, once applied, its result
    issued,     \* the identifiers generateCTID returned, in call order
    client,     \* the EISClient calls so far: arguments, promise, log before and after
    ui          \* the CognitiveStabilitySystem component: its saturation state

consentVars == <<machines, lastCall, query, prevQuery>>
auditVars == <<now, logger, eventObjs, dataObjs, arrays, held, returned, calls,
               mutations>>
sdkVars == <<client, ui>>
callVars == <<app, issued, sdkVars>>
vars == <<machines, lastCall, query, prevQuery, now, logger, eventObjs, dataObjs, arrays,
          held, returned, calls, mutations, app, issued, client, ui>>

NoCall == [id |-> 0]
NoQuery == [asked |-> FALSE]

\* The value of an event object: its fields, with data read through.
EventValue(e) ==
    [timestamp |-> eventObjs[e].timestamp,
     eventType |-> eventObjs[e].eventType,
     userId    |-> eventObjs[e].userId,
     data      |-> dataObjs[eventObjs[e].data]]

\* The value of an array of event references.
Deep(arr) == [i \in 1..Len(arr) |-> EventValue(arr[i])]

\* What getEvents() would return now, as values.
TrailValue == Deep(arrays[logger.events])

\* No pure function is being applied.
Idle == [fn |-> "none", done |-> FALSE]

InitObjects ==
    /\ machines = <<>>
    /\ lastCall = NoCall
    /\ query = NoQuery
    /\ prevQuery = NoQuery
    /\ now = 0
    /\ logger = [events |-> 1]
    /\ eventObjs = <<>>
    /\ dataObjs = <<>>
    /\ arrays = << <<>> >>
    /\ held = <<>>
    /\ returned = <<>>
    /\ calls = <<>>
    /\ mutations = 0
    /\ issued = <<>>
    /\ client = <<>>
    /\ ui = [mounted |-> FALSE]

Init ==
    /\ InitObjects
    /\ app = Idle

\* new ConsentStateMachine() / new ConsentStateMachine(initialState)
NewMachine(arg) ==
    /\ Len(machines) < MaxMachines
    /\ machines' = Append(machines,
                          [state |-> constructor(arg), arg |-> arg, called |-> FALSE,
                           path |-> <<constructor(arg)>>, succeeded |-> 0])
    /\ UNCHANGED <<lastCall, query, prevQuery, auditVars, callVars>>

\* machine.transition(to)
Transition(id, to) ==
    LET from == machines[id].state
        r    == transition(from, to)
    IN  /\ machines' = [machines EXCEPT
                            ![id].state = r.state,
                            ![id].called = TRUE,
                            ![id].path = IF r.state # from THEN Append(@, r.state) ELSE @,
                            ![id].succeeded = IF r.ret THEN @ + 1 ELSE @]
        /\ lastCall' = [id |-> id, from |-> from, to |-> to,
                        ret |-> r.ret, raised |-> r.raised]
        /\ UNCHANGED <<query, prevQuery, auditVars, callVars>>

\* isValidTransition(from, to), called directly
IsValidTransitionCall(from, to) ==
    /\ query' = [asked |-> TRUE, from |-> from, to |-> to,
                 ret |-> isValidTransition(from, to)]
    /\ prevQuery' = query
    /\ UNCHANGED <<machines, lastCall, auditVars, callVars>>

NextConsent ==
    \/ \E arg \in ConsentState \cup {NoArg} : NewMachine(arg)
    \/ \E id \in DOMAIN machines, to \in ConsentState : Transition(id, to)

SpecConsent == Init /\ [][NextConsent]_vars

\* The pure lookup, applied to every pair of states, call after call.
NextTable ==
    \E from \in ConsentState, to \in ConsentState : IsValidTransitionCall(from, to)

SpecTable == Init /\ [][NextTable]_vars

(***************************************************************************)
(* The audit logger and its caller.                                        *)
(***************************************************************************)
\* Date.now() moves forward.
Tick ==
    /\ now < MaxClock
    /\ now' = now + 1
    /\ UNCHANGED <<consentVars, callVars, logger, eventObjs, dataObjs, arrays, held,
                   returned, calls, mutations>>

\* The wall clock is set back.
ClockSetBack ==
    /\ now > 0
    /\ now' = now - 1
    /\ UNCHANGED <<consentVars, callVars, logger, eventObjs, dataObjs, arrays, held,
                   returned, calls, mutations>>

\* logger.log({eventType, userId, data}) with a data object the caller has
\* just built; ts is the timestamp property of the argument, if it has one.
Log(inp, hasTs, ts) ==
    /\ Len(eventObjs) < MaxEvents
    /\ LET d     == Len(dataObjs) + 1
           base  == [eventType |-> inp.eventType, userId |-> inp.userId,
                     data |-> d]
           event == IF ~hasTs THEN base
                    ELSE [k \in DOMAIN base \cup {"timestamp"} |->
                             IF k = "timestamp" THEN ts ELSE base[k]]
           r     == log(eventObjs, arrays, logger.events, event, now)
           trail == r.arrays[logger.events]
           last  == r.eventObjs[trail[Len(trail)]]
       IN  /\ dataObjs' = Append(dataObjs, inp.data)
           /\ eventObjs' = r.eventObjs
           /\ arrays' = r.arrays
           /\ calls' = Append(calls,
                  [eventType |-> inp.eventType, userId |-> inp.userId,
                   data |-> inp.data, hasTs |-> hasTs, ts |-> ts,
                   now |-> now, ret |-> r.ret,
                   stored |-> [timestamp |-> last.timestamp,
                               eventType |-> last.eventType,
                               userId    |-> last.userId,
                               data      |-> Append(dataObjs, inp.data)[last.data]]])
    /\ UNCHANGED <<consentVars, callVars, now, logger, held, returned, mutations>>

\* const events = logger.getEvents()
GetEvents ==
    /\ Len(held) < MaxSnaps
    /\ LET r == getEvents(arrays, logger.events)
       IN  /\ arrays' = r.arrays
           /\ held' = Append(held, r.ref)
           /\ returned' = Append(returned,
                  [logged |-> Len(calls),
                   events |-> Deep(r.arrays[r.ref])])
    /\ UNCHANGED <<consentVars, callVars, now, logger, eventObjs, dataObjs, calls, mutations>>

\* events.push(e) on a returned array (ReadonlyArray is a compile-time type)
CallerPush(h, e) ==
    /\ mutations < MaxMutations
    /\ arrays' = [arrays EXCEPT ![held[h]] = push(@, e)]
    /\ mutations' = mutations + 1
    /\ UNCHANGED <<consentVars, callVars, now, logger, eventObjs, dataObjs, held, returned,
                   calls>>

\* events.pop() on a returned array
CallerPop(h) ==
    /\ mutations < MaxMutations
    /\ arrays[held[h]] # <<>>
    /\ arrays' = [arrays EXCEPT ![held[h]] = SubSeq(@, 1, Len(@) - 1)]
    /\ mutations' = mutations + 1
    /\ UNCHANGED <<consentVars, callVars, now, logger, eventObjs, dataObjs, held, returned,
                   calls>>

\* events[i] = e on a returned array
CallerReplace(h, i, e) ==
    /\ mutations < MaxMutations
    /\ arrays[held[h]][i] # e
    /\ arrays' = [arrays EXCEPT ![held[h]][i] = e]
    /\ mutations' = mutations + 1
    /\ UNCHANGED <<consentVars, callVars, now, logger, eventObjs, dataObjs, held, returned,
                   calls>>

\* events[i].eventType = v, events[i].userId = v or events[i].timestamp = v
CallerSetField(h, i, f, v) ==
    /\ mutations < MaxMutations
    /\ eventObjs[arrays[held[h]][i]][f] # v
    /\ eventObjs' = [eventObjs EXCEPT ![arrays[held[h]][i]][f] = v]
    /\ mutations' = mutations + 1
    /\ UNCHANGED <<consentVars, callVars, now, logger, dataObjs, arrays, held, returned,
                   calls>>

\* data.key = v on a data object the caller passed to log earlier
CallerSetData(d, v) ==
    /\ mutations < MaxMutations
    /\ dataObjs[d] # v
    /\ dataObjs' = [dataObjs EXCEPT ![d] = v]
    /\ mutations' = mutations + 1
    /\ UNCHANGED <<consentVars, callVars, now, logger, eventObjs, arrays, held, returned,
                   calls>>

\* The timestamp an argument of log may carry: one before every later clock
\* reading and one after them all.
ArgumentStamps == {0, MaxClock + 1}

LoggerStep ==
    \/ Tick
    \/ ClockSetBack
    \/ \E inp \in LogInputs : Log(inp, FALSE, 0)
    \/ \E inp \in LogInputs, ts \in ArgumentStamps : Log(inp, TRUE, ts)
    \/ GetEvents

CallerArrayStep ==
    \/ \E h \in DOMAIN held, e \in DOMAIN eventObjs : CallerPush(h, e)
    \/ \E h \in DOMAIN held : CallerPop(h)
    \/ \E h \in DOMAIN held :
          \E i \in DOMAIN arrays[held[h]], e \in DOMAIN eventObjs :
              CallerReplace(h, i, e)

CallerFieldStep ==
    \/ \E h \in DOMAIN held :
          \E i \in DOMAIN arrays[held[h]] :
              \/ \E v \in EventTypes : CallerSetField(h, i, "eventType", v)
              \/ \E v \in UserIds : CallerSetField(h, i, "userId", v)
              \/ \E v \in 0..MaxClock : CallerSetField(h, i, "timestamp", v)
    \/ \E d \in DOMAIN dataObjs, v \in Payloads : CallerSetData(d, v)

\* Only log and getEvents calls, as the clock runs.
NextLog == LoggerStep
SpecLog == Init /\ [][NextLog]_vars

\* log called as its type asks, without a timestamp in the argument.
LogTyped == \E inp \in LogInputs : Log(inp, FALSE, 0)

\* The caller also writes to the arrays getEvents returned.
NextSnap == LogTyped \/ GetEvents \/ CallerArrayStep
SpecSnap == Init /\ [][NextSnap]_vars

\* The caller also writes to the objects it can reach.
NextAlias == Tick \/ LogTyped \/ GetEvents \/ CallerFieldStep
SpecAlias == Init /\ [][NextAlias]_vars

(***************************************************************************)
(* Pure functions: the arguments are drawn in the initial state and one    *)
(* step applies the function.                                              *)
(***************************************************************************)
\* The events of a trace with the given timestamps.
TraceOf(ts) ==
    [i \in 1..Len(ts) |->
        [timestamp |-> ts[i], eventType |-> "event-1", userId |-> "user-1",
         data |-> "empty"]]

StampSeqs == UNION {[1..n -> 0..MaxStamp] : n \in 0..MaxTraceLen}

InitTrace ==
    /\ InitObjects
    /\ app \in {[fn |-> "validateTrace", events |-> TraceOf(ts), done |-> FALSE] :
                  ts \in StampSeqs}

\* validateTrace(events)
ValidateTraceApply ==
    /\ app.fn = "validateTrace"
    /\ ~app.done
    /\ app' = [fn |-> app.fn, events |-> app.events, done |-> TRUE,
               ret |-> validateTrace(app.events)]
    /\ UNCHANGED <<consentVars, auditVars, issued, sdkVars>>

SpecTrace == InitTrace /\ [][ValidateTraceApply]_vars

\* Saturations and axis values, in range and out of it.
Saturations == (0 - MaxExcess)..(100 + MaxExcess)

\* The thresholds passed to isCoupled.
Thresholds == {0, 20, 21, 40, 100}

InitStability ==
    /\ InitObjects
    /\ \/ app \in {[fn |-> "calculateIntegrity", saturation |-> x, done |-> FALSE] :
                     x \in Saturations}
       \/ app \in {[fn |-> "getSystemState", integrity |-> [coc |-> c, erg |-> e],
                     done |-> FALSE] : c \in Saturations, e \in Saturations}
       \/ app \in {[fn |-> "isCoupled", integrity |-> [coc |-> c, erg |-> e],
                     threshold |-> t, done |-> FALSE] :
                     c \in Saturations, e \in Saturations,
                     t \in {NoThreshold} \cup
                           {[given |-> TRUE, value |-> v] : v \in Thresholds}}
       \/ app \in {[fn |-> "classifyPair", s1 |-> x, s2 |-> y, done |-> FALSE] :
                     x \in Saturations, y \in Saturations}
       \/ app \in {[fn |-> "classifyMinMax", saturation |-> x, done |-> FALSE] :
                     x \in Saturations}

\* calculateIntegrity(saturation)
CalculateIntegrityApply ==
    /\ app.fn = "calculateIntegrity"
    /\ ~app.done
    /\ app' = [fn |-> app.fn, saturation |-> app.saturation, done |-> TRUE,
               ret |-> calculateIntegrity(app.saturation)]
    /\ UNCHANGED <<consentVars, auditVars, issued, sdkVars>>

\* getSystemState(integrity)
GetSystemStateApply ==
    /\ app.fn = "getSystemState"
    /\ ~app.done
    /\ app' = [fn |-> app.fn, integrity |-> app.integrity, done |-> TRUE,
               ret |-> getSystemState(app.integrity)]
    /\ UNCHANGED <<consentVars, auditVars, issued, sdkVars>>

\* isCoupled(integrity) / isCoupled(integrity, threshold)
IsCoupledApply ==
    /\ app.fn = "isCoupled"
    /\ ~app.done
    /\ app' = [fn |-> app.fn, integrity |-> app.integrity,
               threshold |-> app.threshold, done |-> TRUE,
               ret |-> isCoupled(app.integrity, app.threshold)]
    /\ UNCHANGED <<consentVars, auditVars, issued, sdkVars>>

\* getSystemState(calculateIntegrity(s)) at two saturations
ClassifyPairApply ==
    /\ app.fn = "classifyPair"
    /\ ~app.done
    /\ app' = [fn |-> app.fn, s1 |-> app.s1, s2 |-> app.s2, done |-> TRUE,
               ret1 |-> getSystemState(calculateIntegrity(app.s1)),
               ret2 |-> getSystemState(calculateIntegrity(app.s2))]
    /\ UNCHANGED <<consentVars, auditVars, issued, sdkVars>>

\* getSystemState(calculateIntegrity(s)) of the min/max variant
ClassifyMinMaxApply ==
    /\ app.fn = "classifyMinMax"
    /\ ~app.done
    /\ app' = [fn |-> app.fn, saturation |-> app.saturation, done |-> TRUE,
               ret |-> getSystemStateMinMax(calculateIntegrityMinMax(app.saturation))]
    /\ UNCHANGED <<consentVars, auditVars, issued, sdkVars>>

NextStability ==
    \/ CalculateIntegrityApply
    \/ GetSystemStateApply
    \/ IsCoupledApply
    \/ ClassifyPairApply
    \/ ClassifyMinMaxApply

SpecStability == InitStability /\ [][NextStability]_vars

\* Signal values, baselines and variances, negative ones included.
Scalars == (0 - MaxMagnitude)..MaxMagnitude

\* Trust values: the small ones and the large ones of the tests.
TrustValues == Scalars \cup {-1500, -1000, 1000, 1500}

InitScalar ==
    /\ InitObjects
    /\ \/ app \in {[fn |-> "isWithinTolerance", value |-> v, baseline |-> b,
                     variance |-> r, done |-> FALSE] :
                     v \in Scalars, b \in Scalars, r \in Scalars}
       \/ app \in {[fn |-> "calculateTrustDelta", baseline |-> b, current |-> c,
                     done |-> FALSE] : b \in TrustValues, c \in TrustValues}

\* isWithinTolerance(value, createToleranceWindow(baseline, variance))
IsWithinToleranceApply ==
    /\ app.fn = "isWithinTolerance"
    /\ ~app.done
    /\ LET window == createToleranceWindow(app.baseline, app.variance, now)
       IN  app' = [fn |-> app.fn, value |-> app.value, baseline |-> app.baseline,
                   variance |-> app.variance, done |-> TRUE,
                   window |-> window,
                   ret |-> isWithinTolerance(app.value, window)]
    /\ UNCHANGED <<consentVars, auditVars, issued, sdkVars>>

\* calculateTrustDelta(baseline, current)
CalculateTrustDeltaApply ==
    /\ app.fn = "calculateTrustDelta"
    /\ ~app.done
    /\ app' = [fn |-> app.fn, baseline |-> app.baseline, current |-> app.current,
               done |-> TRUE,
               ret |-> calculateTrustDelta(app.baseline, app.current)]
    /\ UNCHANGED <<consentVars, auditVars, issued, sdkVars>>

NextScalar ==
    \/ IsWithinToleranceApply
    \/ CalculateTrustDeltaApply

SpecScalar == InitScalar /\ [][NextScalar]_vars

\* const ctid = generateCTID()
GenerateCTID(rnd) ==
    /\ Len(issued) < MaxIssued
    /\ issued' = Append(issued, generateCTID(now, rnd))
    /\ UNCHANGED <<consentVars, auditVars, app, sdkVars>>

NextCtid ==
    \/ Tick
    \/ ClockSetBack
    \/ \E rnd \in RandomStrings : GenerateCTID(rnd)

SpecCtid == Init /\ [][NextCtid]_vars


\* Characters of candidate tokens, and the candidates: every string over them
\* up to MaxTokenLen characters, the empty one included, and some non-strings.
TokenChars == {"c", "t", "i", "d", "-", "x"}
TokenInputs ==
    {Str(chars) : chars \in UNION {[1..n -> TokenChars] : n \in 0..MaxTokenLen}}
        \cup {Undefined, Null, Num(0), Num(42)}

\* Readings of Date.now() with one digit and with several.
ClockReadings == (0..MaxClock) \cup {9, 10, 99, 100, 1234567890}

InitToken ==
    /\ InitObjects
    /\ \/ app \in {[fn |-> "validateCTID", token |-> v, done |-> FALSE] :
                     v \in TokenInputs}
       \/ app \in {[fn |-> "validateGenerated", t |-> t, rnd |-> rnd,
                     done |-> FALSE] : t \in ClockReadings, rnd \in RandomStrings}

\* validateCTID(token)
ValidateCTIDApply ==
    /\ app.fn = "validateCTID"
    /\ ~app.done
    /\ app' = [fn |-> app.fn, token |-> app.token, done |-> TRUE,
               ret |-> validateCTID(app.token)]
    /\ UNCHANGED <<consentVars, auditVars, issued, sdkVars>>

\* const ctid = generateCTID(); validateCTID(ctid)
ValidateGeneratedApply ==
    /\ app.fn = "validateGenerated"
    /\ ~app.done
    /\ LET ctid == generateCTID(app.t, app.rnd)
       IN  app' = [fn |-> app.fn, t |-> app.t, rnd |-> app.rnd, done |-> TRUE,
                   ctid |-> ctid, ret |-> validateCTID(Str(ctid))]
    /\ UNCHANGED <<consentVars, auditVars, issued, sdkVars>>

NextToken ==
    \/ ValidateCTIDApply
    \/ ValidateGeneratedApply

SpecToken == InitToken /\ [][NextToken]_vars


(***************************************************************************)
(* The EISClient and its caller, who does not await one call before        *)
(* making the next.                                                        *)
(***************************************************************************)
Scopes == {"emotional-analysis"}

\* Two outcomes of Math.random().toString(36), one without digits.
ClientRandoms == {<<"0">>, <<"0", ".", "a">>}

\* The consentId of a logAudit argument: omitted, or 'ctid-123'.
ConsentIds == {Undefined, Str(<<"c", "t", "i", "d", "-", "1", "2", "3">>)}

\* The baseline and current of a trust calculation.
TrustPairs == {<<0, 0>>, <<1, 3>>}

\* client.grantConsent({userId, scope}); the clock may advance by dt between
\* the two readings of Date.now().
GrantConsent(userId, scope, rnd, dt) ==
    /\ Len(eventObjs) < MaxEvents
    /\ now + dt <= MaxClock
    /\ LET r == grantConsent(eventObjs, dataObjs, arrays, logger.events,
                             [userId |-> userId, scope |-> scope],
                             now, rnd, now + dt)
       IN  /\ eventObjs' = r.eventObjs
           /\ dataObjs' = r.dataObjs
           /\ arrays' = r.arrays
           /\ client' = Append(client,
                  [op |-> "grantConsent", userId |-> userId, scope |-> scope,
                   value |-> r.ret, settled |-> FALSE, before |-> TrailValue])
    /\ now' = now + dt
    /\ UNCHANGED <<consentVars, app, issued, ui, logger, held, returned, calls,
                   mutations>>

\* client.logAudit({eventType, userId, consentId})
LogAudit(eventType, userId, consentId) ==
    /\ Len(eventObjs) < MaxEvents
    /\ LET r == logAudit(eventObjs, dataObjs, arrays, logger.events,
                         [eventType |-> eventType, userId |-> userId,
                          consentId |-> consentId], now)
       IN  /\ eventObjs' = r.eventObjs
           /\ dataObjs' = r.dataObjs
           /\ arrays' = r.arrays
           /\ client' = Append(client,
                  [op |-> "logAudit", eventType |-> eventType, userId |-> userId,
                   consentId |-> consentId,
                   value |-> r.ret, settled |-> FALSE, before |-> TrailValue])
    /\ UNCHANGED <<consentVars, app, issued, ui, now, logger, held, returned, calls,
                   mutations>>

\* client.calculateTrustDelta({userId, baseline, current})
ClientCalculateTrustDelta(userId, baseline, current) ==
    /\ Len(eventObjs) < MaxEvents
    /\ LET r == clientCalculateTrustDelta(eventObjs, dataObjs, arrays, logger.events,
                         [userId |-> userId, baseline |-> baseline,
                          current |-> current], now)
       IN  /\ eventObjs' = r.eventObjs
           /\ dataObjs' = r.dataObjs
           /\ arrays' = r.arrays
           /\ client' = Append(client,
                  [op |-> "calculateTrustDelta", userId |-> userId,
                   baseline |-> baseline, current |-> current,
                   value |-> r.ret, settled |-> FALSE, before |-> TrailValue])
    /\ UNCHANGED <<consentVars, app, issued, ui, now, logger, held, returned, calls,
                   mutations>>

\* The promise of call i settles; the calls' promises settle in any order.
Settle(i) ==
    /\ ~client[i].settled
    /\ client' = [client EXCEPT ![i].settled = TRUE]
    /\ UNCHANGED <<consentVars, auditVars, app, issued, ui>>

NextClient ==
    \/ Tick
    \/ \E userId \in UserIds, scope \in Scopes, rnd \in ClientRandoms, dt \in {0, 1} :
           GrantConsent(userId, scope, rnd, dt)
    \/ \E consentId \in ConsentIds : LogAudit("test-event", "user-1", consentId)
    \/ \E p \in TrustPairs : ClientCalculateTrustDelta("user-1", p[1], p[2])
    \/ \E i \in DOMAIN client : Settle(i)

SpecClient == Init /\ [][NextClient]_vars


(***************************************************************************)
(* The CognitiveStabilitySystem component and its user.                    *)
(***************************************************************************)
\* <CognitiveStabilitySystem /> or <CognitiveStabilitySystem initialSaturation=.. />
Mount(given, initialSaturation) ==
    /\ ~ui.mounted
    /\ LET arg == IF given THEN initialSaturation ELSE 50
       IN  ui' = [mounted |-> TRUE, saturation |-> initialSaturationState(arg),
                  last |-> [op |-> "mount", from |-> arg]]
    /\ UNCHANGED <<consentVars, auditVars, app, issued, client>>

\* The slider is moved to n: a change event whose target.value is the text of n.
SliderChange(n) ==
    /\ ui.mounted
    /\ ui' = [ui EXCEPT !.saturation = handleSliderChange(ToDecimal(n)),
                        !.last = [op |-> "slider", from |-> ui.saturation]]
    /\ UNCHANGED <<consentVars, auditVars, app, issued, client>>

\* The +5 button is pressed; it is disabled when saturation >= 100.
Increment ==
    /\ ui.mounted
    /\ ~(ui.saturation >= 100)
    /\ ui' = [ui EXCEPT !.saturation = handleIncrement(ui.saturation),
                        !.last = [op |-> "increment", from |-> ui.saturation]]
    /\ UNCHANGED <<consentVars, auditVars, app, issued, client>>

\* The -5 button is pressed; it is disabled when saturation <= 0.
Decrement ==
    /\ ui.mounted
    /\ ~(ui.saturation <= 0)
    /\ ui' = [ui EXCEPT !.saturation = handleDecrement(ui.saturation),
                        !.last = [op |-> "decrement", from |-> ui.saturation]]
    /\ UNCHANGED <<consentVars, auditVars, app, issued, client>>

NextUi ==
    \/ \E given \in BOOLEAN, initialSaturation \in Saturations :
           Mount(given, initialSaturation)
    \/ \E n \in 0..100 : SliderChange(n)
    \/ Increment
    \/ Decrement

SpecUi == Init /\ [][NextUi]_vars

(***************************************************************************)
(* Claims about the consent lifecycle.                                     *)
(***************************************************************************)
TableEdges ==
    {<<PENDING, GRANTED>>, <<PENDING, REVOKED>>,
     <<GRANTED, REVOKED>>, <<GRANTED, EXPIRED>>}

Terminal == {REVOKED, EXPIRED}

\* C1: every change of a machine's getState() from s to a different t is one
\* of the four edges (Pending,Granted), (Pending,Revoked), (Granted,Revoked),
\* (Granted,Expired) of the fixed table.
C1_OnlyTableEdges ==
    [][\A id \in DOMAIN machines :
          machines'[id].state # machines[id].state
              => <<machines[id].state, machines'[id].state>> \in TableEdges]_vars

\* A machine created in Pending has moved along two edges of the table.
C1_Witness ==
    \E id \in DOMAIN machines :
        /\ machines[id].arg = NoArg
        /\ machines[id].state = EXPIRED

\* C2: Revoked and Expired are absorbing, whether reached by transitions or
\* given at construction: every transition call made in such a state returns
\* false, and the state keeps its value in every later step.
C2_TerminalAbsorbing ==
    [][/\ \A id \in DOMAIN machines :
             machines[id].state \in Terminal
                 => machines'[id].state = machines[id].state
       /\ (lastCall' # NoCall /\ lastCall'.from \in Terminal)
             => (~lastCall'.ret /\ machines'[lastCall'.id].state = lastCall'.from)]_vars

\* One machine was constructed in a terminal state, another reached one by
\* transitions, and a transition has been attempted on a terminal state.
C2_Witness ==
    /\ \E id \in DOMAIN machines :
          machines[id].arg \in Terminal /\ machines[id].called
    /\ \E id \in DOMAIN machines :
          machines[id].arg = NoArg /\ machines[id].state \in Terminal
    /\ lastCall # NoCall /\ lastCall.from \in Terminal

\* C3: transition(t) in state s returns true exactly when
\* isValidTransition(s, t) holds, and then getState() is t; otherwise it
\* returns false, raises no exception, and getState() is still s.
C3_TransitionResult ==
    lastCall # NoCall =>
        /\ lastCall.ret = isValidTransition(lastCall.from, lastCall.to)
        /\ ~lastCall.raised
        /\ machines[lastCall.id].state =
              (IF lastCall.ret THEN lastCall.to ELSE lastCall.from)

\* A rejected transition out of a non-terminal state.
C3_Witness ==
    /\ lastCall # NoCall
    /\ lastCall.from = GRANTED
    /\ lastCall.to = PENDING
    /\ ~lastCall.ret

\* C4: over the 16 ordered pairs of consent states, isValidTransition is true
\* for exactly the four pairs of the table and false for the other twelve:
\* every self-transition, every pair out of Revoked or Expired, every pair
\* into Pending.
C4_TableExact ==
    \A q \in {query, prevQuery} :
        q.asked =>
            /\ q.ret <=> (<<q.from, q.to>> \in TableEdges)
            /\ (q.from = q.to) => ~q.ret
            /\ (q.from \in Terminal) => ~q.ret
            /\ (q.to = PENDING) => ~q.ret

\* isValidTransition(Granted, Expired) was asked and answered true, after
\* isValidTransition(Expired, Granted) was asked and answered false.
C4_Witness ==
    /\ query.asked /\ prevQuery.asked
    /\ query.from = GRANTED /\ query.to = EXPIRED /\ query.ret
    /\ prevQuery.from = EXPIRED /\ prevQuery.to = GRANTED /\ ~prevQuery.ret

\* C5 as stated: every newly created machine is in Pending before its first
\* transition call.
C5_AlwaysStartsPending ==
    \A id \in DOMAIN machines :
        ~machines[id].called => machines[id].state = PENDING

\* C5 as amended: a machine created without an initialState argument is in
\* Pending before its first transition call; one created with an explicit
\* initialState is in that state.
C5_StartsPendingByDefault ==
    \A id \in DOMAIN machines :
        ~machines[id].called =>
            machines[id].state =
                (IF machines[id].arg = NoArg THEN PENDING ELSE machines[id].arg)

\* Both kinds of construction have happened and neither machine was touched.
C5_Witness ==
    /\ \E id \in DOMAIN machines :
          machines[id].arg = NoArg /\ ~machines[id].called
    /\ \E id \in DOMAIN machines :
          machines[id].arg = REVOKED /\ ~machines[id].called

(***************************************************************************)
(* Claims about the audit trail.                                           *)
(***************************************************************************)
IsPrefix(a, b) ==
    /\ Len(a) <= Len(b)
    /\ \A i \in 1..Len(a) : a[i] = b[i]

\* C6: under log and getEvents calls alone the trail is append-only: what an
\* earlier getEvents returned is a prefix (same events, same order, same field
\* values) of what every later getEvents returns, and of the trail as it is.
C6_AppendOnly ==
    /\ \A i, j \in DOMAIN returned :
          i <= j => IsPrefix(returned[i].events, returned[j].events)
    /\ \A i \in DOMAIN returned : IsPrefix(returned[i].events, TrailValue)

\* A getEvents that returned one event, then one that returned more.
C6_Witness ==
    \E i, j \in DOMAIN returned :
        /\ i < j
        /\ Len(returned[i].events) = 1
        /\ Len(returned[j].events) > 1

\* C7: after exactly N log calls on a fresh logger getEvents returns exactly N
\* events, and the i-th carries the eventType, userId and data of the i-th
\* log call.
C7_InsertionOrder ==
    \A k \in DOMAIN returned :
        /\ Len(returned[k].events) = returned[k].logged
        /\ \A i \in 1..Len(returned[k].events) :
              /\ returned[k].events[i].eventType = calls[i].eventType
              /\ returned[k].events[i].userId = calls[i].userId
              /\ returned[k].events[i].data = calls[i].data

\* getEvents after two log calls with different arguments.
C7_Witness ==
    \E k \in DOMAIN returned :
        /\ returned[k].logged >= 2
        /\ calls[1].eventType # calls[2].eventType

\* C8: getEvents returns a snapshot: a write of the caller to a returned array
\* (push, pop, replacing an element) leaves what a later getEvents returns as
\* it was, and a log call leaves every array returned before as it was.
C8_Snapshot ==
    [][/\ mutations' # mutations => TrailValue' = TrailValue
       /\ Len(calls') # Len(calls) =>
             \A h \in DOMAIN held : arrays'[held[h]] = arrays[held[h]]]_vars

\* The caller has written to a returned array, which now differs from the
\* trail, and an event was logged after that array was returned.
C8_Witness ==
    \E h \in DOMAIN held :
        /\ mutations > 0
        /\ arrays[held[h]] # <<>>
        /\ ~IsPrefix(arrays[held[h]], arrays[logger.events])
        /\ returned[h].logged < Len(calls)

\* C9 as stated: no write of the caller to an object it can reach (a field of
\* an event obtained from getEvents, the data object it passed to log) changes
\* any field of any event a later getEvents returns.
C9_NoAliasing ==
    [][mutations' # mutations => TrailValue' = TrailValue]_vars

\* C10 as stated: log returns the event it stored, equal in timestamp,
\* eventType, userId and data to the last element of the trail right after
\* the call.
C10_ReturnsStoredEvent ==
    \A i \in DOMAIN calls : calls[i].ret = calls[i].stored

\* C10 as amended: log returns no value; right after the call the last element
\* of the trail has the clock reading of the call as timestamp and the
\* eventType, userId and data the call was given.
C10_StoresStampedEvent ==
    \A i \in DOMAIN calls :
        /\ calls[i].ret = Undefined
        /\ calls[i].stored =
              [timestamp |-> calls[i].now,
               eventType |-> calls[i].eventType,
               userId    |-> calls[i].userId,
               data      |-> calls[i].data]

\* A second log call, whose argument carried a timestamp of its own that is
\* not the clock reading.
C10_Witness ==
    /\ Len(calls) = 2
    /\ calls[2].hasTs
    /\ calls[2].ts # calls[2].now

(***************************************************************************)
(* Claims about the trace validator.                                       *)
(***************************************************************************)
\* C11 as stated: after any sequence of log calls, each stamped with the
\* clock reading of its call, validateTrace(getEvents()) is true: the stored
\* timestamps are non-decreasing in append order.
C11_LoggerTrailValid ==
    validateTrace(TrailValue)

\* C12: validateTrace is true exactly when every event's timestamp is greater
\* than or equal to that of the event before it: true for the empty and the
\* one-element sequence, true with equal neighbours, false with one decreasing
\* pair anywhere.
C12_ValidateTraceExact ==
    (app.fn = "validateTrace" /\ app.done) =>
        /\ app.ret <=>
              \A i \in 2..Len(app.events) :
                  app.events[i].timestamp >= app.events[i - 1].timestamp
        /\ Len(app.events) <= 1 => app.ret
        /\ (\E i \in 2..Len(app.events) :
                app.events[i].timestamp < app.events[i - 1].timestamp) => ~app.ret

\* A trace with equal neighbours whose only decreasing pair is the last one
\* has been rejected.
C12_Witness ==
    /\ app.fn = "validateTrace" /\ app.done
    /\ Len(app.events) = 4
    /\ app.events[1].timestamp = app.events[2].timestamp
    /\ app.events[2].timestamp < app.events[3].timestamp
    /\ app.events[4].timestamp < app.events[3].timestamp
    /\ ~app.ret

(***************************************************************************)
(* Claims about integrity, system state and coupling.                      *)
(***************************************************************************)
\* The saturation after clamping to [0, 100].
Clamped(x) == IF x < 0 THEN 0 ELSE IF x > 100 THEN 100 ELSE x

\* The band of a minimum integrity m.
Band(m) ==
    CASE m < 20 -> "fractured"
      [] m >= 20 /\ m < 40 -> "critical"
      [] m >= 40 /\ m < 80 -> "narrowed"
      [] m >= 80 -> "stable"

\* Fractured < Critical < Narrowed < Stable
Rank(st) ==
    CASE st = "fractured" -> 0
      [] st = "critical" -> 1
      [] st = "narrowed" -> 2
      [] st = "stable" -> 3

\* C13: for every integer saturation s, also below 0 and above 100, the
\* symmetric calculateIntegrity(s) returns coc = 100 - clamp(s) and
\* erg = clamp(s): the axes sum to 100 and both lie in [0, 100].
C13_IntegritySymmetric ==
    (app.fn = "calculateIntegrity" /\ app.done) =>
        /\ app.ret.coc = 100 - Clamped(app.saturation)
        /\ app.ret.erg = Clamped(app.saturation)
        /\ app.ret.coc + app.ret.erg = 100
        /\ app.ret.coc \in 0..100
        /\ app.ret.erg \in 0..100

\* calculateIntegrity was applied to a saturation above 100.
C13_Witness ==
    /\ app.fn = "calculateIntegrity" /\ app.done
    /\ app.saturation > 100
    /\ app.ret = [coc |-> 0, erg |-> 100]

\* C14: getSystemState is a total function of m = min(coc, erg) alone:
\* fractured for m < 20, critical for 20 <= m < 40, narrowed for 40 <= m < 80,
\* stable for m >= 80; swapping coc and erg does not change the result.
C14_StateOfMinimum ==
    (app.fn = "getSystemState" /\ app.done) =>
        LET m == IF app.integrity.coc <= app.integrity.erg
                 THEN app.integrity.coc ELSE app.integrity.erg
        IN  /\ app.ret = Band(m)
            /\ app.ret \in {"fractured", "critical", "narrowed", "stable"}
            /\ app.ret = getSystemState([coc |-> app.integrity.erg,
                                         erg |-> app.integrity.coc])

\* getSystemState was applied to a pair whose smaller axis is erg, on a band
\* boundary.
C14_Witness ==
    /\ app.fn = "getSystemState" /\ app.done
    /\ app.integrity = [coc |-> 80, erg |-> 20]
    /\ app.ret = "critical"

\* C15: with the default threshold isCoupled(integrity) is true exactly when
\* getSystemState(integrity) is not fractured; with an explicit threshold t it
\* is true exactly when coc >= t and erg >= t.
C15_CoupledIffNotFractured ==
    (app.fn = "isCoupled" /\ app.done) =>
        IF app.threshold.given
        THEN app.ret <=> (/\ app.integrity.coc >= app.threshold.value
                          /\ app.integrity.erg >= app.threshold.value)
        ELSE app.ret <=> (getSystemState(app.integrity) # "fractured")

\* isCoupled was applied with the default threshold just below the boundary.
C15_Witness ==
    /\ app.fn = "isCoupled" /\ app.done
    /\ ~app.threshold.given
    /\ app.integrity = [coc |-> 19, erg |-> 81]
    /\ ~app.ret

\* C16 as stated: for all saturations s1 <= s2 the state at s2 is never
\* higher than the state at s1.
C16_MonotoneInSaturation ==
    (app.fn = "classifyPair" /\ app.done /\ app.s1 <= app.s2) =>
        Rank(app.ret2) <= Rank(app.ret1)

\* C17: in the min/max variant getSystemState(calculateIntegrity(s)) is stable
\* for s <= 20, narrowed for 20 < s <= 60, critical for 60 < s <= 80 and
\* fractured for s > 80, for every integer s.
C17_MinMaxMapping ==
    (app.fn = "classifyMinMax" /\ app.done) =>
        app.ret = (CASE app.saturation <= 20 -> "stable"
                     [] app.saturation > 20 /\ app.saturation <= 60 -> "narrowed"
                     [] app.saturation > 60 /\ app.saturation <= 80 -> "critical"
                     [] app.saturation > 80 -> "fractured")

\* The mapping was applied at the upper end of the critical band.
C17_Witness ==
    /\ app.fn = "classifyMinMax" /\ app.done
    /\ app.saturation = 80
    /\ app.ret = "critical"

(***************************************************************************)
(* Claims about tolerance windows, trust deltas and identifiers.           *)
(***************************************************************************)
\* C18: isWithinTolerance(v, window) is true exactly when
\* b - r <= v <= b + r, both bounds included, and createToleranceWindow
\* stores b and r as given, without clamping.
C18_ToleranceInclusive ==
    (app.fn = "isWithinTolerance" /\ app.done) =>
        /\ app.window.baseline = app.baseline
        /\ app.window.variance = app.variance
        /\ app.ret <=> (/\ app.baseline - app.variance <= app.value
                        /\ app.value <= app.baseline + app.variance)

\* A value on the upper bound of a window with a positive variance was found
\* within tolerance.
C18_Witness ==
    /\ app.fn = "isWithinTolerance" /\ app.done
    /\ app.variance > 0
    /\ app.value = app.baseline + app.variance
    /\ app.ret

\* C19: calculateTrustDelta returns the baseline and current it was given and
\* delta = current - baseline, for negative and large integers too; for
\* baseline = 0 and current = 0 the delta is 0, as the general formula gives.
C19_TrustDeltaExact ==
    (app.fn = "calculateTrustDelta" /\ app.done) =>
        /\ app.ret.baseline = app.baseline
        /\ app.ret.current = app.current
        /\ app.ret.delta = app.current - app.baseline
        /\ (app.baseline = 0 /\ app.current = 0) => app.ret.delta = 0

\* A delta between a negative baseline and a large current was computed.
C19_Witness ==
    /\ app.fn = "calculateTrustDelta" /\ app.done
    /\ app.baseline < 0
    /\ app.current = 1500
    /\ app.ret.delta = 1500 - app.baseline

\* C20 as stated: any two calls of generateCTID, however close in time,
\* return different strings.
C20_NeverIssuedTwice ==
    \A i, j \in DOMAIN issued : i # j => issued[i] # issued[j]

(***************************************************************************)
(* Claims about the identifier validator.                                  *)
(***************************************************************************)
\* C21: every identifier generateCTID produces passes validateCTID, for every
\* clock reading and every random component.
C21_GeneratedIsValid ==
    (app.fn = "validateGenerated" /\ app.done) => app.ret = Return(TRUE)

\* An identifier with a several-digit clock reading and an empty random
\* component was generated and validated.
C21_Witness ==
    /\ app.fn = "validateGenerated" /\ app.done
    /\ app.t >= 10
    /\ app.rnd = <<"0">>
    /\ app.ret = Return(TRUE)

\* The token is a string that begins with the characters c t i d -.
HasCtidPrefix(v) ==
    /\ v.typeof = "string"
    /\ Len(v.chars) >= 5
    /\ v.chars[1] = "c" /\ v.chars[2] = "t" /\ v.chars[3] = "i"
    /\ v.chars[4] = "d" /\ v.chars[5] = "-"

\* C22: validateCTID(token) is true exactly when token is a non-empty string
\* with the prefix 'ctid-'; for every other input, the empty string and
\* non-strings included, it returns false and raises nothing; tokens with the
\* prefix that generateCTID never produces are accepted.
C22_ValidateExact ==
    (app.fn = "validateCTID" /\ app.done) =>
        /\ ~app.ret.raised
        /\ app.ret.value <=> HasCtidPrefix(app.token)
        /\ app.ret.value => Len(app.token.chars) > 0

\* The token 'ctid-x', which generateCTID cannot produce (a digit always
\* follows its prefix), was accepted.
C22_Witness ==
    /\ app.fn = "validateCTID" /\ app.done
    /\ app.token = Str(<<"c", "t", "i", "d", "-", "x">>)
    /\ app.ret = Return(TRUE)

(***************************************************************************)
(* Claims about the EISClient.                                             *)
(***************************************************************************)
\* The audit log as call i left it: the log the next call found, or the
\* current one after the latest call.
AfterOf(i) == IF i = Len(client) THEN TrailValue ELSE client[i + 1].before

\* C23: each grantConsent call appends exactly one event to the client's
\* audit log, with eventType 'consent-granted', the caller's userId and a
\* data.ctid equal to the identifier the call returns; that identifier passes
\* validateCTID, and the earlier events are left unchanged.
C23_GrantConsentLogs ==
    \A i \in DOMAIN client :
        client[i].op = "grantConsent" =>
            LET before == client[i].before
                after  == AfterOf(i)
                k      == Len(before) + 1
            IN  /\ Len(after) = k
                /\ after[k].eventType = "consent-granted"
                /\ after[k].userId = client[i].userId
                /\ after[k].data.ctid = client[i].value
                /\ validateCTID(Str(client[i].value)) = Return(TRUE)
                /\ SubSeq(after, 1, k - 1) = before

\* Two users were granted consent one after the other on the same client.
C23_Witness ==
    /\ Len(client) = 2
    /\ client[1].op = "grantConsent" /\ client[2].op = "grantConsent"
    /\ client[1].userId # client[2].userId
    /\ Len(TrailValue) = 2

\* The event type and the data a client call is to log.
ExpectedEventType(c) ==
    CASE c.op = "grantConsent" -> "consent-granted"
      [] c.op = "logAudit" -> c.eventType
      [] c.op = "calculateTrustDelta" -> "trust-delta-calculated"

ExpectedData(c) ==
    CASE c.op = "grantConsent" -> [ctid |-> c.value, scope |-> c.scope]
      [] c.op = "logAudit" -> [consentId |-> c.consentId]
      [] c.op = "calculateTrustDelta" ->
            [baseline |-> c.baseline, current |-> c.current,
             delta |-> c.current - c.baseline]

\* C28: when client operations are started without awaiting one another, the
\* log holds exactly one event per call, in invocation order, none lost,
\* duplicated or interleaved, whatever order the promises settle in.
C28_OneEventPerCallInOrder ==
    /\ Len(TrailValue) = Len(client)
    /\ \A i \in DOMAIN client :
           /\ TrailValue[i].eventType = ExpectedEventType(client[i])
           /\ TrailValue[i].userId = client[i].userId
           /\ TrailValue[i].data = ExpectedData(client[i])

\* Two different operations were started, and the promise of the second
\* settled while the first one's had not.
C28_Witness ==
    /\ Len(client) = 2
    /\ client[1].op # client[2].op
    /\ ~client[1].settled
    /\ client[2].settled
    /\ Len(TrailValue) = 2

(***************************************************************************)
(* Claims about the CognitiveStabilitySystem component.                    *)
(***************************************************************************)
\* C24: the saturation state is always within [0,100], for every
\* initialSaturation, below 0 and above 100 included, and after any sequence
\* of slider changes and +5 / -5 presses; +5 at a value above 95 gives 100 and
\* -5 at a value below 5 gives 0.
C24_SaturationInRange ==
    ui.mounted =>
        /\ 0 <= ui.saturation /\ ui.saturation <= 100
        /\ (ui.last.op = "increment" /\ ui.last.from > 95) => ui.saturation = 100
        /\ (ui.last.op = "decrement" /\ ui.last.from < 5) => ui.saturation = 0

\* The component was mounted with an initialSaturation above 100.
C24_Witness ==
    /\ ui.mounted
    /\ ui.last.op = "mount"
    /\ ui.last.from > 100
    /\ ui.saturation = 100

C26_LifecycleBounded ==
    \A id \in DOMAIN machines :
        LET m == machines[id]
        IN  /\ m.succeeded <= 2
            /\ m.path[1] = GRANTED => m.succeeded <= 1
            /\ m.path[1] \in Terminal => m.succeeded = 0
            /\ Len(m.path) - 1 <= 2

\* A machine returned true twice: granted, then revoked.
C26_Witness ==
    \E id \in DOMAIN machines :
        /\ machines[id].succeeded = 2
        /\ machines[id].path = <<PENDING, GRANTED, REVOKED>>

\* C27: for a machine that starts in Pending, the state is Expired only if it
\* was Granted earlier in the run, and once the state has left Pending it is
\* never Pending again.
C27_ExpiredOnlyAfterGranted ==
    \A id \in DOMAIN machines :
        LET m == machines[id]
        IN  m.path[1] = PENDING =>
                /\ m.state = EXPIRED =>
                       \E i \in 1..(Len(m.path) - 1) : m.path[i] = GRANTED
                /\ \A i \in 2..Len(m.path) : m.path[i] # PENDING

\* A machine that started in Pending has expired, after having been granted.
C27_Witness ==
    \E id \in DOMAIN machines :
        /\ machines[id].arg = NoArg
        /\ machines[id].state = EXPIRED
        /\ machines[id].path = <<PENDING, GRANTED, EXPIRED>>

(***************************************************************************)
(* Further claims about tolerance windows and the audit trail.             *)
(***************************************************************************)
\* C29: a tolerance window created with a negative variance accepts nothing,
\* whatever the baseline and the value; with variance 0 it accepts the
\* baseline and nothing else.
C29_NegativeVarianceRejectsAll ==
    (app.fn = "isWithinTolerance" /\ app.done) =>
        /\ app.variance < 0 => ~app.ret
        /\ app.variance = 0 => (app.ret <=> app.value = app.baseline)

\* The baseline itself was refused by a window with a negative variance.
C29_Witness ==
    /\ app.fn = "isWithinTolerance" /\ app.done
    /\ app.variance < 0
    /\ app.value = app.baseline
    /\ ~app.ret

\* C30 as stated: the timestamp of a stored event is always the clock reading
\* of its log call; a timestamp in the object passed to log never ends up in
\* the stored event, and no caller can back-date or forward-date an event.
\* The part about the argument of log holds wherever only log and getEvents
\* are called; a write through a reference obtained from getEvents breaks the
\* rest.
C30_TimestampIsClockReading ==
    /\ Len(TrailValue) = Len(calls)
    /\ \A i \in DOMAIN calls :
           /\ TrailValue[i].timestamp = calls[i].now
           /\ (calls[i].hasTs /\ calls[i].ts # calls[i].now) =>
                  /\ calls[i].stored.timestamp # calls[i].ts
                  /\ TrailValue[i].timestamp # calls[i].ts

====
